---- MODULE Spec2Model ----
(***************************************************************************)
(* Page flow of reportbro: ReportBand (prepare, create_render_elements,    *)
(* render_pdf, render_spreadsheet), DocumentPDFRenderer.render and         *)
(* DocumentXLSXRenderer.render of src/reportbro/reportbro.py.              *)
(*                                                                         *)
(* The element classes (reportbro/elements.py) and the Context are not     *)
(* part of the sources at hand; the element capability is modelled from    *)
(* the specification (section 6): Elem, bottom, ElemPrepare, is_printed,   *)
(* get_next_render_element, finish_empty_element, ElemRenderSpreadsheet,   *)
(* get_column_count.                                                       *)
(***************************************************************************)
EXTENDS Integers, Sequences, FiniteSets, TLC

\* ------------------------------------------------------------------ bounds
\* greatest number of elements put into the content band
MaxElems == 3

\* the sizing loop raises 'Too many pages' at page_count >= 10000; the model raises
\* at page_count >= MaxPages
MaxPages == 12

\* ------------------------------------------------------------ element pool
\* Elements the bands are built from.  Ids 1..7, 14 and 15 go to the content band,
\* 8..10 to the header, 11..13 to the footer.  Element 7 has a print condition
\* that is false; element 15 is a table without rows, which has nothing to render.  The id order is not the y order, so that
\* prepare has to sort.
Pool ==
  << [kind |-> "text",  y |-> 60,  height |-> 60, x |-> 0,  sort_order |-> 1, printed |-> TRUE,  hide |-> FALSE, rows |-> 1, cols |-> 1],
     [kind |-> "text",  y |-> 0,   height |-> 60, x |-> 40, sort_order |-> 1, printed |-> TRUE,  hide |-> FALSE, rows |-> 1, cols |-> 1],
     [kind |-> "break", y |-> 130, height |-> 0,  x |-> 0,  sort_order |-> 0, printed |-> TRUE,  hide |-> TRUE,  rows |-> 0, cols |-> 1],
     [kind |-> "doc",   y |-> 30,  height |-> 50, x |-> 80, sort_order |-> 1, printed |-> TRUE,  hide |-> FALSE, rows |-> 1, cols |-> 1],
     [kind |-> "break", y |-> 60,  height |-> 0,  x |-> 0,  sort_order |-> 0, printed |-> TRUE,  hide |-> TRUE,  rows |-> 0, cols |-> 1],
     [kind |-> "table", y |-> 0,   height |-> 150, x |-> 0,  sort_order |-> 1, printed |-> TRUE,  hide |-> FALSE, rows |-> 3, cols |-> 3],
     [kind |-> "text",  y |-> 120, height |-> 20, x |-> 0,  sort_order |-> 1, printed |-> FALSE, hide |-> FALSE, rows |-> 0, cols |-> 1],
     [kind |-> "text",  y |-> 0,   height |-> 10, x |-> 0,  sort_order |-> 1, printed |-> TRUE,  hide |-> FALSE, rows |-> 1, cols |-> 1],
     [kind |-> "text",  y |-> 15,  height |-> 20, x |-> 0,  sort_order |-> 1, printed |-> TRUE,  hide |-> FALSE, rows |-> 1, cols |-> 1],
     [kind |-> "break", y |-> 12,  height |-> 0,  x |-> 0,  sort_order |-> 0, printed |-> TRUE,  hide |-> TRUE,  rows |-> 0, cols |-> 1],
     [kind |-> "text",  y |-> 0,   height |-> 10, x |-> 0,  sort_order |-> 1, printed |-> TRUE,  hide |-> FALSE, rows |-> 1, cols |-> 1],
     [kind |-> "doc",   y |-> 15,  height |-> 20, x |-> 0,  sort_order |-> 1, printed |-> TRUE,  hide |-> FALSE, rows |-> 1, cols |-> 1],
     [kind |-> "break", y |-> 12,  height |-> 0,  x |-> 0,  sort_order |-> 0, printed |-> TRUE,  hide |-> TRUE,  rows |-> 0, cols |-> 1],
     [kind |-> "text",  y |-> 140, height |-> 10, x |-> 0,  sort_order |-> 1, printed |-> TRUE,  hide |-> FALSE, rows |-> 1, cols |-> 1],
     [kind |-> "table", y |-> 20,  height |-> 0,  x |-> 0,  sort_order |-> 1, printed |-> TRUE,  hide |-> FALSE, rows |-> 0, cols |-> 1] >>

Ids == 1..Len(Pool)
ContentIds == (1..7) \cup {14, 15}
NoElem == 0

\* doc_elements of the header and of the footer band: the n-th header goes with
\* the n-th footer
HeaderDocs == << <<>>, <<8>>, <<8, 9>>, <<8, 10, 9>> >>
FooterDocs == << <<>>, <<11>>, <<11, 12>>, <<11, 13, 12>> >>

Bands == {"header", "content", "footer"}
BandDisplay == {"always", "never", "not_on_first_page"}

\* DocumentProperties: a page of 120 with margins of 10 and bands of 20
NormalProps ==
  { [page_height |-> 120, margin_top |-> 10, margin_bottom |-> 10,
     header_display |-> hd, header_size |-> 20,
     footer_display |-> fd, footer_size |-> 20] : hd \in BandDisplay, fd \in BandDisplay }

\* header and footer take the whole page: no height is left for the content
CrampedProps ==
  [page_height |-> 120, margin_top |-> 10, margin_bottom |-> 10,
   header_display |-> "always", header_size |-> 50,
   footer_display |-> "always", footer_size |-> 50]

\* ------------------------------------------------------------------- state
VARIABLES
  props,        \* report.document_properties
  doc,          \* doc_elements of each band (Container.doc_elements), as ids
  band,         \* per band: sorted_elements, render_elements, explicit_page_break, page_y
  el,           \* per element: predecessor, rendering_complete, first_render_element, render_bottom, remaining
  pc,           \* position of the running generate_pdf / generate_xlsx call
  page_count,   \* local page_count of DocumentPDFRenderer.render
  ctx,          \* Context: page_number, page_count (0: not set)
  pages,        \* the sink: one record per physical page started (pdf_doc.add_page)
  sized,        \* one record per create_render_elements call of the sizing loop
  pass,         \* what the last create_render_elements call of the content band did
  drain,        \* what the last render_pdf call of the content band did
  xlsx,         \* DocumentXLSXRenderer: row, and the cells written per band
  cleaned,      \* ids of the elements whose cleanup ReportBand.cleanup has called
  definition,   \* report_definition handed to Report.__init__
  errors,       \* report.errors
  first         \* the pages of the first generate_pdf, once a second one has started

vars == <<props, doc, band, el, pc, page_count, ctx, pages, sized, pass, drain, xlsx, cleaned,
          definition, errors, first>>

\* ------------------------------------------------------ element capability
Elem(id) == Pool[id]

bottom(id) == Elem(id).y + Elem(id).height

IsPageBreak(id) == Elem(id).kind = "break"

IsTable(id) == Elem(id).kind = "table"

is_printed(id) == Elem(id).printed

NewElemState ==
  [predecessor |-> NoElem, rendering_complete |-> FALSE, first_render_element |-> TRUE,
   render_bottom |-> 0, remaining |-> 0]

\* elem.prepare: the element readies itself; all of its content is still to render
ElemPrepare(s, id) == [s EXCEPT !.remaining = Elem(id).height]

Sentinel == [kind |-> "break", id |-> NoElem, top |-> -1, height |-> 0, complete |-> FALSE]

NoFragment == [kind |-> "none", id |-> NoElem, top |-> 0, height |-> 0, complete |-> FALSE]

Fragment(id, top, h, complete) ==
  [kind |-> "frag", id |-> id, top |-> top, height |-> h, complete |-> complete]

\* nextFragment(offset, availableHeight): a text or table takes what is left of the
\* page and continues on the next one, and is complete without a fragment when it
\* has nothing to render; any other element fits whole or not at all
get_next_render_element(s, id, offset_y, container_height) ==
  LET available == container_height - offset_y
  IN IF Elem(id).kind \in {"text", "table"}
     THEN IF s.remaining = 0
          THEN [frag |-> NoFragment, complete |-> TRUE,
                s |-> [s EXCEPT !.rendering_complete = TRUE, !.first_render_element = FALSE,
                                !.render_bottom = offset_y]]
          ELSE IF s.remaining <= available
               THEN [frag |-> Fragment(id, offset_y, s.remaining, TRUE), complete |-> TRUE,
                     s |-> [s EXCEPT !.remaining = 0, !.rendering_complete = TRUE,
                                     !.first_render_element = FALSE,
                                     !.render_bottom = offset_y + s.remaining]]
               ELSE [frag |-> Fragment(id, offset_y, available, FALSE), complete |-> FALSE,
                     s |-> [s EXCEPT !.remaining = s.remaining - available,
                                     !.first_render_element = FALSE,
                                     !.render_bottom = container_height]]
     ELSE IF offset_y + Elem(id).height <= container_height
          THEN [frag |-> Fragment(id, offset_y, Elem(id).height, TRUE), complete |-> TRUE,
                s |-> [s EXCEPT !.remaining = 0, !.rendering_complete = TRUE,
                                !.render_bottom = offset_y + Elem(id).height]]
          ELSE [frag |-> NoFragment, complete |-> FALSE, s |-> s]

\* finishEmpty(offset): a hidden element is complete at this offset
finish_empty_element(s, offset_y) ==
  [s EXCEPT !.rendering_complete = TRUE, !.render_bottom = offset_y]

\* the row an element writes into the worksheet ends before the returned row
ElemRenderSpreadsheet(id, row, col) == row + Elem(id).rows

get_column_count(id) == Elem(id).cols

\* ------------------------------------------------------------- ReportBand
allow_page_break(b) == b = "content"

NewBand ==
  [sorted_elements |-> <<>>, render_elements |-> <<>>, explicit_page_break |-> TRUE, page_y |-> 0]

\* mutant: the sort key is y alone
PdfKeyLessByY(a, c) == Elem(a).y < Elem(c).y

\* key=lambda item: (item.y, item.sort_order)
PdfKeyLess(a, c) ==
  \/ Elem(a).y < Elem(c).y
  \/ Elem(a).y = Elem(c).y /\ Elem(a).sort_order < Elem(c).sort_order

\* key=lambda item: (item.y, item.x)
XlsxKeyLess(a, c) ==
  \/ Elem(a).y < Elem(c).y
  \/ Elem(a).y = Elem(c).y /\ Elem(a).x < Elem(c).x

KeyLess(pdf_doc, a, c) == IF pdf_doc THEN PdfKeyLess(a, c) ELSE XlsxKeyLess(a, c)

\* id put into the sorted list s behind every entry whose key is not greater
RECURSIVE InsertSorted(_, _, _)
InsertSorted(pdf_doc, s, id) ==
  IF s = <<>> THEN <<id>>
  ELSE IF KeyLess(pdf_doc, id, Head(s)) THEN <<id>> \o s
       ELSE <<Head(s)>> \o InsertSorted(pdf_doc, Tail(s), id)

\* sorted(...): stable
RECURSIVE sorted(_, _)
sorted(pdf_doc, s) ==
  IF s = <<>> THEN <<>>
  ELSE InsertSorted(pdf_doc, sorted(pdf_doc, SubSeq(s, 1, Len(s) - 1)), s[Len(s)])

\* for j in range(i-1, -1, -1): the element of the greatest bottom <= elem.y
RECURSIVE ScanPredecessor(_, _, _, _)
ScanPredecessor(s, i, j, predecessor) ==
  IF j < 1 THEN predecessor
  ELSE LET elem2 == s[j]
       IN ScanPredecessor(s, i, j - 1,
            IF bottom(elem2) <= Elem(s[i]).y
               /\ (predecessor = NoElem \/ bottom(elem2) > bottom(predecessor))
            THEN elem2 ELSE predecessor)

\* mutant: the scan starts at the end of the list, not before the element
FindPredecessorAnywhere(s, i) == ScanPredecessor(s, i, Len(s), NoElem)

FindPredecessor(s, i) == ScanPredecessor(s, i, i - 1, NoElem)

\* if predecessor and not isinstance(predecessor, PageBreakElement): set_predecessor
SetPredecessor(old, predecessor) ==
  IF predecessor # NoElem /\ ~IsPageBreak(predecessor) THEN predecessor ELSE old

Index(s, id) == CHOOSE i \in 1..Len(s) : s[i] = id

Range(s) == {s[i] : i \in 1..Len(s)}


\* the elements prepare takes in: all for a page target, the ones not hidden in a
\* spreadsheet otherwise
Taken(b, pdf_doc, only_verify) ==
  LET keep(id) == pdf_doc \/ ~Elem(id).hide \/ only_verify
  IN SelectSeq(doc[b], keep)

\* elem.prepare, and for a header or footer the reset of the two flags
PrepareElements(b, els, taken) ==
  [id \in Ids |->
     IF id \in Range(taken)
     THEN IF ~allow_page_break(b)
          THEN [ElemPrepare(els[id], id) EXCEPT !.first_render_element = TRUE,
                                                !.rendering_complete = FALSE]
          ELSE ElemPrepare(els[id], id)
     ELSE els[id]]

\* the predecessor links of the sorted elements
LinkElements(els, srt) ==
  [id \in Ids |->
     IF id \in Range(srt)
     THEN [els[id] EXCEPT !.predecessor = SetPredecessor(@, FindPredecessor(srt, Index(srt, id)))]
     ELSE els[id]]

PrepareSorted(pdf_doc, bnd, els, srt) ==
  [bnd |-> [bnd EXCEPT !.sorted_elements = srt,
                       !.render_elements = IF pdf_doc THEN <<>> ELSE @],
   els |-> IF pdf_doc THEN LinkElements(els, srt) ELSE els]

PrepareTaken(b, pdf_doc, bnd, els, taken) ==
  PrepareSorted(pdf_doc, bnd, PrepareElements(b, els, taken), sorted(pdf_doc, taken))

\* ReportBand.prepare: the band and the elements after the call
prepare(b, pdf_doc, only_verify, bnd, els) ==
  PrepareTaken(b, pdf_doc, bnd, els, Taken(b, pdf_doc, only_verify))

RemoveAt(s, i) == SubSeq(s, 1, i - 1) \o SubSeq(s, i + 1, Len(s))

\* mutant: no element waits for its predecessor
PredecessorNeverWaits(els, completed_elements, elem) == FALSE

\* elem.predecessor and (elem.predecessor.id not in completed_elements or
\* not elem.predecessor.rendering_complete)
PredecessorNotCompleted(els, completed_elements, elem) ==
  /\ els[elem].predecessor # NoElem
  /\ \/ els[elem].predecessor \notin completed_elements
     \/ ~els[els[elem].predecessor].rendering_complete

\* mutant: an element without predecessor is placed at its y on every page
OffsetYAbsolute(b, els, bnd, elem) ==
  IF els[elem].predecessor # NoElem
  THEN els[els[elem].predecessor].render_bottom + (Elem(elem).y - bottom(els[elem].predecessor))
  ELSE Elem(elem).y

\* offset_y of an element that is not a page break
OffsetY(b, els, bnd, elem) ==
  IF els[elem].predecessor # NoElem
  THEN els[els[elem].predecessor].render_bottom + (Elem(elem).y - bottom(els[elem].predecessor))
  ELSE IF allow_page_break(b)
       THEN IF els[elem].first_render_element /\ bnd.explicit_page_break
            THEN Elem(elem).y - bnd.page_y
            ELSE 0
       ELSE Elem(elem).y

\* the locals of create_render_elements before the loop; bnd and els are the band
\* and the elements as the loop changes them, stopped_at and placed record what the
\* pass did
LoopStart(bnd, els) ==
  [i |-> 1, new_page |-> FALSE, processed_elements |-> <<>>, completed_elements |-> {},
   set_explicit_page_break |-> FALSE, returned |-> FALSE, bnd |-> bnd, els |-> els,
   stopped_at |-> NoElem, placed |-> <<>>]

\* render_elem, complete = elem.get_next_render_element(...) and what follows it
TakeFragment(L, elem, r) ==
  [L EXCEPT
     !.els[elem] = r.s,
     !.processed_elements = IF r.frag.kind # "none" /\ r.complete THEN Append(@, elem) ELSE @,
     !.bnd.render_elements = IF r.frag.kind # "none" THEN Append(@, r.frag) ELSE @,
     !.placed = IF r.frag.kind # "none" \/ r.complete THEN Append(@, elem) ELSE @,
     !.completed_elements = IF r.complete THEN @ \cup {elem} ELSE @,
     !.bnd.sorted_elements = IF r.complete THEN RemoveAt(@, L.i) ELSE @,
     !.i = IF r.complete THEN @ ELSE @ + 1]

\* mutant: an offset at or below the end of the page forces a new page for a hidden
\* element too
PlaceAtOffsetFirst(container_height, L, elem, offset_y) ==
  IF offset_y >= container_height
  THEN [L EXCEPT !.new_page = TRUE, !.i = @ + 1]
  ELSE IF is_printed(elem)
       THEN TakeFragment(L, elem,
              get_next_render_element(L.els[elem], elem, offset_y, container_height))
       ELSE [L EXCEPT
               !.processed_elements = Append(@, elem),
               !.els[elem] = finish_empty_element(@, offset_y),
               !.placed = Append(@, elem),
               !.completed_elements = @ \cup {elem},
               !.bnd.sorted_elements = RemoveAt(@, L.i)]

\* an element that is no page break, at its offset
PlaceAt(container_height, L, elem, offset_y) ==
  IF is_printed(elem)
  THEN IF offset_y >= container_height
       THEN [L EXCEPT !.new_page = TRUE, !.i = @ + 1]
       ELSE TakeFragment(L, elem,
              get_next_render_element(L.els[elem], elem, offset_y, container_height))
  ELSE [L EXCEPT
          !.processed_elements = Append(@, elem),
          !.els[elem] = finish_empty_element(@, offset_y),
          !.placed = Append(@, elem),
          !.completed_elements = @ \cup {elem},
          !.bnd.sorted_elements = RemoveAt(@, L.i)]

\* mutant: a page break ends the page in every band
PlaceElementBreakAnywhere(b, container_height, L, elem) ==
  IF IsPageBreak(elem)
  THEN [L EXCEPT !.bnd.sorted_elements = RemoveAt(@, L.i),
                 !.new_page = TRUE,
                 !.set_explicit_page_break = TRUE,
                 !.bnd.page_y = Elem(elem).y]
  ELSE PlaceAt(container_height, L, elem, OffsetY(b, L.els, L.bnd, elem))

\* one turn of the while loop for an element that does not wait for its predecessor
PlaceElement(b, container_height, L, elem) ==
  IF IsPageBreak(elem)
  THEN IF allow_page_break(b)
       THEN [L EXCEPT !.bnd.sorted_elements = RemoveAt(@, L.i),
                      !.new_page = TRUE,
                      !.set_explicit_page_break = TRUE,
                      !.bnd.page_y = Elem(elem).y]
       ELSE [L EXCEPT !.bnd.sorted_elements = <<>>, !.returned = TRUE]
  ELSE PlaceAt(container_height, L, elem, OffsetY(b, L.els, L.bnd, elem))

\* mutant: the loop steps over a page break and goes on with the next element
LoopBodyOverBreak(b, container_height, L, elem) ==
  IF PredecessorNotCompleted(L.els, L.completed_elements, elem)
  THEN [L EXCEPT !.new_page = TRUE, !.stopped_at = elem]
  ELSE IF IsPageBreak(elem) /\ allow_page_break(b)
       THEN [L EXCEPT !.i = @ + 1]
       ELSE PlaceElement(b, container_height, L, elem)

\* one turn of the while loop
LoopBody(b, container_height, L, elem) ==
  IF PredecessorNotCompleted(L.els, L.completed_elements, elem)
  THEN [L EXCEPT !.new_page = TRUE, !.stopped_at = elem]
  ELSE PlaceElement(b, container_height, L, elem)

\* while not new_page and i < len(self.sorted_elements)
RECURSIVE WhileLoop(_, _, _)
WhileLoop(b, container_height, L) ==
  IF L.returned \/ L.new_page \/ L.i > Len(L.bnd.sorted_elements) THEN L
  ELSE WhileLoop(b, container_height,
                 LoopBody(b, container_height, L, L.bnd.sorted_elements[L.i]))

\* mutant: the links of the successors are never cleared
ClearSuccessorsNever(els, processed_elements) == els

\* successor.predecessor = None, for the successors of the processed elements
ClearSuccessors(els, processed_elements) ==
  [id \in Ids |->
     IF els[id].predecessor # NoElem /\ els[id].predecessor \in Range(processed_elements)
     THEN [els[id] EXCEPT !.predecessor = NoElem]
     ELSE els[id]]

\* mutant: the flag is never reset
ExplicitPageBreakKept(b, set_explicit_page_break) == TRUE

\* self.explicit_page_break = set_explicit_page_break if self.allow_page_break else True
ExplicitPageBreak(b, set_explicit_page_break) ==
  IF allow_page_break(b) THEN set_explicit_page_break ELSE TRUE

\* mutant: the sentinel is appended whether or not elements are left
AfterLoopSentinelAlways(b, L) ==
  IF L.returned
  THEN [bnd |-> L.bnd, els |-> L.els, result |-> TRUE,
        stopped_at |-> L.stopped_at, placed |-> L.placed]
  ELSE [bnd |-> [L.bnd EXCEPT
                   !.explicit_page_break = ExplicitPageBreak(b, L.set_explicit_page_break),
                   !.render_elements = Append(@, Sentinel)],
        els |-> IF Len(L.bnd.sorted_elements) > 0
                THEN ClearSuccessors(L.els, L.processed_elements) ELSE L.els,
        result |-> Len(L.bnd.sorted_elements) = 0,
        stopped_at |-> L.stopped_at, placed |-> L.placed]

\* what the call leaves behind once the loop has ended
AfterLoop(b, L) ==
  IF L.returned
  THEN [bnd |-> L.bnd, els |-> L.els, result |-> TRUE,
        stopped_at |-> L.stopped_at, placed |-> L.placed]
  ELSE [bnd |-> [L.bnd EXCEPT
                   !.explicit_page_break = ExplicitPageBreak(b, L.set_explicit_page_break),
                   !.render_elements = IF Len(L.bnd.sorted_elements) > 0
                                       THEN Append(@, Sentinel) ELSE @],
        els |-> IF Len(L.bnd.sorted_elements) > 0
                THEN ClearSuccessors(L.els, L.processed_elements) ELSE L.els,
        result |-> Len(L.bnd.sorted_elements) = 0,
        stopped_at |-> L.stopped_at, placed |-> L.placed]

\* ReportBand.create_render_elements: the band and the elements after the call, its
\* result, and what the pass did
create_render_elements(b, container_height, bnd, els) ==
  AfterLoop(b, WhileLoop(b, container_height, LoopStart(bnd, els)))

\* mutant: the loop does not stop at a page break
RenderLoopNoBreak(render_elements, counter, drawn) ==
  [counter |-> Len(render_elements), drawn |-> render_elements]

\* for render_elem in self.render_elements: counter entries are gone through, the
\* ones before a page break are drawn
RECURSIVE RenderLoop(_, _, _)
RenderLoop(render_elements, counter, drawn) ==
  IF counter >= Len(render_elements) THEN [counter |-> counter, drawn |-> drawn]
  ELSE IF render_elements[counter + 1].kind = "break"
       THEN [counter |-> counter + 1, drawn |-> drawn]
       ELSE RenderLoop(render_elements, counter + 1, Append(drawn, render_elements[counter + 1]))

\* mutant: the slice starts one entry early
RemainderFromBreak(render_elements, counter) ==
  IF counter = 0 THEN render_elements
  ELSE SubSeq(render_elements, counter, Len(render_elements))

\* self.render_elements = self.render_elements[counter:]
Remainder(render_elements, counter) == SubSeq(render_elements, counter + 1, Len(render_elements))

\* what render_pdf draws, what it releases (cleanup), what it leaves
Rendered(render_elements, cleanup, r) ==
  [drawn |-> r.drawn,
   released |-> IF cleanup THEN r.drawn ELSE <<>>,
   render_elements |-> Remainder(render_elements, r.counter)]

\* mutant: a call draws the whole queue
render_pdf_all(render_elements, cleanup) ==
  [drawn |-> SelectSeq(render_elements, LAMBDA f : f.kind # "break"),
   released |-> IF cleanup THEN SelectSeq(render_elements, LAMBDA f : f.kind # "break") ELSE <<>>,
   render_elements |-> <<>>]

\* ReportBand.render_pdf
render_pdf(render_elements, cleanup) ==
  Rendered(render_elements, cleanup, RenderLoop(render_elements, 0, <<>>))

\* ReportBand.cleanup: elem.cleanup() for every element of doc_elements
cleanup(b) == Range(doc[b])

\* ReportBand.is_finished
is_finished(bnd) == Len(bnd.render_elements) = 0

Max(a, c) == IF a >= c THEN a ELSE c

\* while j < count: the index behind the last element of the row starting at i
RECURSIVE RowEnd(_, _, _)
RowEnd(s, i, j) ==
  IF j <= Len(s) /\ Elem(s[j]).y = Elem(s[i]).y THEN RowEnd(s, i, j + 1) ELSE j

\* mutant: every element takes one column
NextColOne(col, row_element) == col + 1

\* col += row_element.get_column_count() if isinstance(row_element, TableElement) else 1
NextCol(col, row_element) ==
  col + (IF IsTable(row_element) THEN get_column_count(row_element) ELSE 1)

\* for row_element in row_elements: the cells written and the row reached
RECURSIVE RenderRow(_, _, _, _, _)
RenderRow(row_elements, current_row, col, row, cells) ==
  IF row_elements = <<>> THEN [row |-> row, cells |-> cells]
  ELSE RenderRow(Tail(row_elements), current_row,
                 NextCol(col, Head(row_elements)),
                 Max(row, ElemRenderSpreadsheet(Head(row_elements), current_row, col)),
                 Append(cells, [id |-> Head(row_elements), row |-> current_row, col |-> col,
                                next |-> ElemRenderSpreadsheet(Head(row_elements), current_row, col)]))

\* while i < count
RECURSIVE RenderRows(_, _, _)
RenderRows(s, i, r) ==
  IF i > Len(s) THEN r
  ELSE RenderRows(s, RowEnd(s, i, i + 1),
         RenderRow(SubSeq(s, i, RowEnd(s, i, i + 1) - 1), r.row, 0, r.row, r.cells))

\* ReportBand.render_spreadsheet: the returned row and the cells written
render_spreadsheet(bnd, row) ==
  RenderRows(bnd.sorted_elements, 1, [row |-> row, cells |-> <<>>])

\* ------------------------------------------------------ DocumentPDFRenderer
\* header_display == always or (header_display == not_on_first_page and page_count != 1)
HeaderSized(p, n) ==
  p.header_display = "always" \/ (p.header_display = "not_on_first_page" /\ n # 1)

FooterSized(p, n) ==
  p.footer_display = "always" \/ (p.footer_display = "not_on_first_page" /\ n # 1)

\* mutant: the first page is taken to be page 0
HeaderEmittedFromZero(p, page_number) ==
  p.header_display = "always" \/ (p.header_display = "not_on_first_page" /\ page_number # 0)

\* header_display == always or (header_display == not_on_first_page and page_number != 1)
HeaderEmitted(p, page_number) ==
  p.header_display = "always" \/ (p.header_display = "not_on_first_page" /\ page_number # 1)

FooterEmitted(p, page_number) ==
  p.footer_display = "always" \/ (p.footer_display = "not_on_first_page" /\ page_number # 1)

\* mutant: the footer is not taken off the height
ContentHeightOverFooter(p, n) ==
  p.page_height - p.margin_top - p.margin_bottom
    - (IF HeaderSized(p, n) THEN p.header_size ELSE 0)

\* height of the sizing loop for the page page_count
ContentHeight(p, n) ==
  p.page_height - p.margin_top - p.margin_bottom
    - (IF HeaderSized(p, n) THEN p.header_size ELSE 0)
    - (IF FooterSized(p, n) THEN p.footer_size ELSE 0)

\* content_offset_y of the page page_number
ContentOffsetY(p, page_number) ==
  p.margin_top + (IF HeaderEmitted(p, page_number) THEN p.header_size ELSE 0)

footer_offset_y(p) == p.page_height - p.footer_size - p.margin_bottom

\* mutant: the cap is checked with > instead of >=
TooManyPagesLate(n) == n > MaxPages

\* page_count >= 10000: raise RuntimeError('Too many pages (probably an endless loop)')
TooManyPages(n) == n >= MaxPages

\* ---------------------------------------------------------------- Init
RECURSIVE SetToSeq(_)
SetToSeq(S) ==
  IF S = {} THEN <<>>
  ELSE LET m == CHOOSE x \in S : \A z \in S : x <= z
       IN <<m>> \o SetToSeq(S \ {m})

\* doc_elements of the content band: at most MaxElems elements, in the order of
\* their ids
ContentDocs == {SetToSeq(S) : S \in {T \in SUBSET ContentIds : Cardinality(T) <= MaxElems}}

NoPass == [height |-> 0, before |-> NewBand, els_before |-> [id \in Ids |-> NewElemState],
           result |-> FALSE, stopped_at |-> NoElem, placed |-> <<>>, calls |-> 0]

NoDrain == [before |-> <<>>, drawn |-> <<>>, released |-> <<>>, after |-> <<>>, calls |-> 0]

\* no generate_pdf before the running one
NoRun == <<>>

InitState ==
  /\ band = [b \in Bands |-> NewBand]
  /\ el = [id \in Ids |-> NewElemState]
  /\ page_count = 0
  /\ ctx = [page_number |-> 0, page_count |-> 0]
  /\ pages = <<>>
  /\ sized = <<>>
  /\ pass = NoPass
  /\ drain = NoDrain
  /\ xlsx = [row |-> 0, calls |-> <<>>]
  /\ cleaned = {}
  /\ errors = <<>>
  /\ first = NoRun

\* a report whose construction has returned, before any call
InitRest == InitState /\ pc = "start"

\* the definition of a report that has been constructed
NoDefinition == [pageFormat |-> "none"]

\* a report of the pool
InitPool ==
  /\ props \in NormalProps
  /\ definition = NoDefinition
  /\ \E c \in ContentDocs, n \in 1..Len(HeaderDocs) :
       doc = [header |-> HeaderDocs[n], content |-> c, footer |-> FooterDocs[n]]
  /\ InitRest

\* a report whose header and footer leave no height for the content
InitCramped ==
  /\ props = CrampedProps
  /\ definition = NoDefinition
  /\ \E c \in ContentDocs : doc = [header |-> <<>>, content |-> c, footer |-> <<>>]
  /\ InitRest

Init == InitPool \/ InitCramped

\* ------------------------------------------------------------- actions
Prepared(r) ==
  /\ band' = [band EXCEPT !["content"] = r.bnd]
  /\ el' = r.els

\* render, up to the sizing loop: self.content_band.prepare; page_count = 1
GeneratePdf ==
  /\ pc = "start"
  /\ Prepared(prepare("content", TRUE, FALSE, band["content"], el))
  /\ page_count' = 1
  /\ pc' = "sizing"
  /\ UNCHANGED <<props, doc, ctx, pages, sized, pass, drain, xlsx, cleaned>>
  /\ UNCHANGED <<definition, errors, first>>

\* the turn of the sizing loop for the height and the result r of the call
Sized(height, r) ==
  /\ band' = [band EXCEPT !["content"] = r.bnd]
  /\ el' = r.els
  /\ sized' = Append(sized, [page |-> page_count, height |-> height,
                             header |-> HeaderSized(props, page_count),
                             footer |-> FooterSized(props, page_count),
                             complete |-> r.result])
  /\ pass' = [height |-> height, before |-> band["content"], els_before |-> el,
              result |-> r.result, stopped_at |-> r.stopped_at, placed |-> r.placed,
              calls |-> pass.calls + 1]
  /\ IF r.result
     THEN /\ page_count' = page_count
          /\ ctx' = [ctx EXCEPT !.page_count = page_count]
          /\ pc' = "emit"
     ELSE /\ page_count' = page_count + 1
          /\ ctx' = ctx
          /\ pc' = IF TooManyPages(page_count + 1) THEN "error" ELSE "sizing"

SizedAt(height) ==
  Sized(height, create_render_elements("content", height, band["content"], el))

\* one turn of the sizing loop; after the last one, context.set_page_count
SizingStep ==
  /\ pc = "sizing"
  /\ SizedAt(ContentHeight(props, page_count))
  /\ UNCHANGED <<props, doc, pages, drain, xlsx, cleaned>>
  /\ UNCHANGED <<definition, errors, first>>

\* a band that is not on the page
Absent(bnd, els) ==
  [bnd |-> bnd, els |-> els, shown |-> FALSE, result |-> TRUE, laid_out |-> <<>>, drawn |-> <<>>,
   released |-> <<>>]

FixedDrawn(c, d) ==
  [bnd |-> [c.bnd EXCEPT !.render_elements = d.render_elements], els |-> c.els,
   shown |-> TRUE, result |-> c.result, laid_out |-> c.bnd.render_elements, drawn |-> d.drawn,
   released |-> d.released]

FixedLaidOut(c) == FixedDrawn(c, render_pdf(c.bnd.render_elements, FALSE))

FixedPrepared(b, size, p) == FixedLaidOut(create_render_elements(b, size, p.bnd, p.els))

\* mutant: the band is laid out as the page before left it
RenderFixedBandUnprepared(b, size, bnd, els) ==
  FixedLaidOut(create_render_elements(b, size, bnd, els))

\* prepare, create_render_elements and render_pdf of a header or footer band
RenderFixedBand(b, size, bnd, els) ==
  FixedPrepared(b, size, prepare(b, TRUE, FALSE, bnd, els))

\* mutant: the header is decided before add_page has counted the page
HeaderPartBeforeAddPage(page_number) ==
  IF HeaderEmitted(props, page_number - 1)
  THEN RenderFixedBand("header", props.header_size, band["header"], el)
  ELSE Absent(band["header"], el)

HeaderPart(page_number) ==
  IF HeaderEmitted(props, page_number)
  THEN RenderFixedBand("header", props.header_size, band["header"], el)
  ELSE Absent(band["header"], el)

FooterPart(page_number, els) ==
  IF FooterEmitted(props, page_number)
  THEN RenderFixedBand("footer", props.footer_size, band["footer"], els)
  ELSE Absent(band["footer"], els)

\* the page page_number with its header h, its footer f and its content d
Emitted(page_number, h, f, d) ==
  /\ ctx' = [ctx EXCEPT !.page_number = page_number]
  /\ band' = [band EXCEPT !["header"] = h.bnd, !["footer"] = f.bnd,
                          !["content"].render_elements = d.render_elements]
  /\ el' = f.els
  /\ pages' = Append(pages,
       [page_number |-> page_number,
        header |-> h.shown, footer |-> f.shown,
        header_done |-> h.result, footer_done |-> f.result,
        header_laid_out |-> h.laid_out, footer_laid_out |-> f.laid_out,
        header_drawn |-> h.drawn, footer_drawn |-> f.drawn,
        header_released |-> h.released, footer_released |-> f.released,
        content_released |-> d.released,
        content_offset_y |-> ContentOffsetY(props, page_number),
        content_drawn |-> d.drawn])
  /\ drain' = [before |-> band["content"].render_elements, drawn |-> d.drawn,
               released |-> d.released, after |-> d.render_elements,
               calls |-> drain.calls + 1]

EmittedWithHeader(page_number, h) ==
  Emitted(page_number, h, FooterPart(page_number, h.els),
          render_pdf(band["content"].render_elements, TRUE))

\* mutant: the loop does not ask for a first page
MorePagesWhenPending == ~is_finished(band["content"])

\* while not self.content_band.is_finished() or self.context.get_page_number() == 0
MorePages == ~is_finished(band["content"]) \/ ctx.page_number = 0

\* one turn of the emission loop: add_page, then header, footer and content
EmitPage ==
  /\ pc = "emit"
  /\ MorePages
  /\ EmittedWithHeader(ctx.page_number + 1, HeaderPart(ctx.page_number + 1))
  /\ UNCHANGED <<props, doc, pc, page_count, sized, pass, xlsx, cleaned>>
  /\ UNCHANGED <<definition, errors, first>>

\* the emission loop ends: cleanup of header and footer, pdf_doc.output
FinishPdf ==
  /\ pc = "emit"
  /\ ~MorePages
  /\ pc' = "done"
  /\ cleaned' = cleanup("header") \cup cleanup("footer")
  /\ UNCHANGED <<props, doc, band, el, page_count, ctx, pages, sized, pass, drain, xlsx>>
  /\ UNCHANGED <<definition, errors, first>>

\* ----------------------------------------------------- DocumentXLSXRenderer
BandRendered(p, r) == [bnd |-> p.bnd, els |-> p.els, row |-> r.row, cells |-> r.cells]

BandPrepared(p, row) == BandRendered(p, render_spreadsheet(p.bnd, row))

\* render_band: band.prepare(self.context); self.row = band.render_spreadsheet(...)
render_band(b, bnd, els, row) == BandPrepared(prepare(b, FALSE, FALSE, bnd, els), row)

XlsxRendered(b, r) ==
  /\ band' = [band EXCEPT ![b] = r.bnd]
  /\ el' = r.els
  /\ xlsx' = [row |-> r.row,
              calls |-> Append(xlsx.calls,
                 [band |-> b, start |-> xlsx.row, sorted_elements |-> r.bnd.sorted_elements,
                  cells |-> r.cells, result |-> r.row])]

XlsxBand(b) == XlsxRendered(b, render_band(b, band[b], el, xlsx.row))

GenerateXlsx ==
  /\ pc = "start"
  /\ pc' = "xlsx_header"
  /\ UNCHANGED <<props, doc, band, el, page_count, ctx, pages, sized, pass, drain, xlsx, cleaned>>
  /\ UNCHANGED <<definition, errors, first>>

\* if header_display != never: render_band(header_band)
XlsxHeader ==
  /\ pc = "xlsx_header"
  /\ IF props.header_display # "never"
     THEN XlsxBand("header")
     ELSE UNCHANGED <<band, el, xlsx>>
  /\ pc' = "xlsx_content"
  /\ UNCHANGED <<props, doc, page_count, ctx, pages, sized, pass, drain, cleaned>>
  /\ UNCHANGED <<definition, errors, first>>

\* render_band(content_band)
XlsxContent ==
  /\ pc = "xlsx_content"
  /\ XlsxBand("content")
  /\ pc' = "xlsx_footer"
  /\ UNCHANGED <<props, doc, page_count, ctx, pages, sized, pass, drain, cleaned>>
  /\ UNCHANGED <<definition, errors, first>>

\* if header_display != never: render_band(footer_band); workbook.close()
XlsxFooter ==
  /\ pc = "xlsx_footer"
  /\ IF props.header_display # "never"
     THEN XlsxBand("footer")
     ELSE UNCHANGED <<band, el, xlsx>>
  /\ pc' = "done"
  /\ UNCHANGED <<props, doc, page_count, ctx, pages, sized, pass, drain, cleaned>>
  /\ UNCHANGED <<definition, errors, first>>

Next ==
  \/ GeneratePdf
  \/ SizingStep
  \/ EmitPage
  \/ FinishPdf
  \/ GenerateXlsx
  \/ XlsxHeader
  \/ XlsxContent
  \/ XlsxFooter

Spec == Init /\ [][Next]_vars

\* --------------------------------------- a second generate_pdf of the report
\* generate_pdf on a report whose first generate_pdf has returned: a new renderer
\* and a new pdf document for the same bands, elements and context; render, up to
\* the sizing loop
GeneratePdfAgain ==
  /\ pc = "done"
  /\ Len(sized) > 0
  /\ first = NoRun
  /\ first' = pages
  /\ Prepared(prepare("content", TRUE, FALSE, band["content"], el))
  /\ page_count' = 1
  /\ pc' = "sizing"
  /\ pages' = <<>>
  /\ sized' = <<>>
  /\ pass' = NoPass
  /\ drain' = NoDrain
  /\ cleaned' = {}
  /\ UNCHANGED <<props, doc, ctx, xlsx, definition, errors>>

NextAgain ==
  \/ Next
  \/ GeneratePdfAgain

SpecAgain == Init /\ [][NextAgain]_vars

\* ------------------------------------------- Report.__init__ and verify
\* page formats with their orientation, and custom sizes with their unit; sizes
\* are in tenths of the unit (letter is 8.5 x 11 inch)
UserSizes ==
  { <<990, 3000>>, <<1000, 990>>, <<1000, 3000>>, <<1000000, 3000>>,
    <<0, 50>>, <<10, 10000>>, <<80, 110>> }

Geometries ==
  { [pageFormat |-> "a4", orientation |-> "portrait", unit |-> "mm", pageWidth |-> 0, pageHeight |-> 0],
    [pageFormat |-> "a5", orientation |-> "landscape", unit |-> "mm", pageWidth |-> 0, pageHeight |-> 0],
    [pageFormat |-> "letter", orientation |-> "portrait", unit |-> "mm", pageWidth |-> 0, pageHeight |-> 0] }
  \cup { [pageFormat |-> "user", orientation |-> "portrait", unit |-> u,
          pageWidth |-> wh[1], pageHeight |-> wh[2]] : u \in {"mm", "inch"}, wh \in UserSizes }

Locales == {"en", "pt", ""}

BandSettings ==
  { [header |-> FALSE, headerDisplay |-> "always", footer |-> FALSE, footerDisplay |-> "always"],
    [header |-> TRUE, headerDisplay |-> "always", footer |-> TRUE, footerDisplay |-> "always"],
    [header |-> TRUE, headerDisplay |-> "never", footer |-> TRUE, footerDisplay |-> "always"],
    [header |-> TRUE, headerDisplay |-> "always", footer |-> TRUE, footerDisplay |-> "never"],
    [header |-> TRUE, headerDisplay |-> "not_on_first_page", footer |-> FALSE, footerDisplay |-> "never"] }

DocElements ==
  { [header |-> <<>>, content |-> <<>>, footer |-> <<>>],
    [header |-> <<8>>, content |-> <<2, 6>>, footer |-> <<11>>],
    [header |-> <<8, 9>>, content |-> <<1, 2, 7>>, footer |-> <<11, 12>>] }

\* names of the parameters of the definition
ParameterLists == { <<>>, <<"a", "b">>, <<"a", "b", "a">> }

\* ids of the elements whose prepare raises a ReportBroError
InvalidElements == { {}, {9}, {2}, {12} }

Definitions ==
  { [geometry |-> g, patternLocale |-> l, bands |-> bs, contentHeight |-> ch,
     docElements |-> de, parameters |-> ps, invalid |-> inv, pageFormat |-> g.pageFormat] :
       g \in Geometries, l \in Locales, bs \in BandSettings, ch \in {0, 60},
       de \in DocElements, ps \in ParameterLists, inv \in InvalidElements }

Error(msg, object_id, field) == [msg |-> msg, object_id |-> object_id, field |-> field]

\* round(n / d) for n >= 0; d is such that no n / d lies halfway
Round(n, d) == (2 * n + d) \div (2 * d)

\* page_width and page_height as the format gives them, in tenths of the unit
PageSize(g) ==
  IF g.pageFormat = "a4"
  THEN IF g.orientation = "portrait" THEN [w |-> 2100, h |-> 2970, unit |-> "mm"]
                                     ELSE [w |-> 2970, h |-> 2100, unit |-> "mm"]
  ELSE IF g.pageFormat = "a5"
  THEN IF g.orientation = "portrait" THEN [w |-> 1480, h |-> 2100, unit |-> "mm"]
                                     ELSE [w |-> 2100, h |-> 1480, unit |-> "mm"]
  ELSE IF g.pageFormat = "letter"
  THEN IF g.orientation = "portrait" THEN [w |-> 85, h |-> 110, unit |-> "inch"]
                                     ELSE [w |-> 110, h |-> 85, unit |-> "inch"]
  ELSE [w |-> g.pageWidth, h |-> g.pageHeight, unit |-> g.unit]

\* the errors of a custom page size: one at most
PageSizeErrors(g) ==
  LET lo == IF g.unit = "mm" THEN 1000 ELSE 10
      hi == IF g.unit = "mm" THEN 1000000 ELSE 10000
  IN IF g.pageFormat # "user" THEN <<>>
     ELSE IF g.pageWidth < lo \/ g.pageWidth >= hi
          THEN <<Error("errorMsgInvalidPageSize", "0_document_properties", "page")>>
     ELSE IF g.pageHeight < lo \/ g.pageHeight >= hi
          THEN <<Error("errorMsgInvalidPageSize", "0_document_properties", "page")>>
     ELSE <<>>

\* dpi = 72: round((dpi * n) / 25.4) for mm, round(dpi * n) for inch; n in tenths
ToPoints(unit, tenths) ==
  IF unit = "mm" THEN Round(36 * tenths, 127) ELSE Round(36 * tenths, 5)

\* if self.pattern_locale not in ('de', 'en', 'es', 'fr', 'it'): raise RuntimeError
InvalidLocale(l) == l \notin {"de", "en", "es", "fr", "it"}

ContentHeightOf(content_height, page_height, header_size, footer_size) ==
  IF content_height = 0 THEN page_height - header_size - footer_size - 10 - 10
  ELSE content_height

\* the fields DocumentProperties.__init__ sets for the definition d and page size z
PropertiesOf(d, z, header_size, footer_size) ==
  [page_width |-> ToPoints(z.unit, z.w), page_height |-> ToPoints(z.unit, z.h),
   margin_left |-> 10, margin_top |-> 10, margin_right |-> 10, margin_bottom |-> 10,
   pattern_locale |-> d.patternLocale,
   header |-> d.bands.header, footer |-> d.bands.footer,
   header_display |-> IF d.bands.header THEN d.bands.headerDisplay ELSE "never",
   header_size |-> header_size,
   footer_display |-> IF d.bands.footer THEN d.bands.footerDisplay ELSE "never",
   footer_size |-> footer_size,
   content_height |-> ContentHeightOf(d.contentHeight, ToPoints(z.unit, z.h), header_size, footer_size)]

\* DocumentProperties.__init__: the properties, the errors appended to
\* report.errors, and whether it raised
DocumentProperties(d) ==
  [props |-> PropertiesOf(d, PageSize(d.geometry),
                          IF d.bands.header THEN 20 ELSE 0, IF d.bands.footer THEN 20 ELSE 0),
   errors |-> PageSizeErrors(d.geometry),
   raised |-> InvalidLocale(d.patternLocale)]

\* if parameter.name in self.parameters: errorMsgDuplicateParameter
RECURSIVE ParameterErrors(_, _)
ParameterErrors(ps, k) ==
  IF k > Len(ps) THEN <<>>
  ELSE (IF \E j \in 1..(k - 1) : ps[j] = ps[k]
        THEN <<Error("errorMsgDuplicateParameter", ps[k], "name")>> ELSE <<>>)
       \o ParameterErrors(ps, k + 1)

\* width of an element
ElemWidth(id) == IF IsTable(id) THEN 120 ELSE IF IsPageBreak(id) THEN 0 ELSE 40

\* Container.is_visible / ReportBand.is_visible
is_visible(b, p) == IF b = "header" THEN p.header ELSE IF b = "footer" THEN p.footer ELSE TRUE

\* ReportBand.width and ReportBand.height
BandWidth(p) == p.page_width - p.margin_left - p.margin_right

BandHeight(b, p) ==
  IF b = "content" THEN p.content_height
  ELSE IF b = "header" THEN p.header_size ELSE p.footer_size

\* the errors of the position of one element in its container
PositionErrors(b, p, id) ==
  IF ~is_visible(b, p) THEN <<>>
  ELSE (IF Elem(id).x < 0
        THEN <<Error("errorMsgInvalidPosition", id, "position")>>
        ELSE IF Elem(id).x + ElemWidth(id) > BandWidth(p)
        THEN <<Error("errorMsgInvalidSize", id, "position")>> ELSE <<>>)
       \o
       (IF Elem(id).y < 0
        THEN <<Error("errorMsgInvalidPosition", id, "position")>>
        ELSE IF Elem(id).y + Elem(id).height > BandHeight(b, p)
        THEN <<Error("errorMsgInvalidSize", id, "position")>> ELSE <<>>)

RECURSIVE ElementErrors(_, _, _, _)
ElementErrors(b, p, ids, k) ==
  IF k > Len(ids) THEN <<>>
  ELSE PositionErrors(b, p, ids[k]) \o ElementErrors(b, p, ids, k + 1)

\* the errors Report.__init__ appends after the document properties
ReportErrors(d, p) ==
  ParameterErrors(d.parameters, 1)
  \o ElementErrors("header", p, d.docElements.header, 1)
  \o ElementErrors("content", p, d.docElements.content, 1)
  \o ElementErrors("footer", p, d.docElements.footer, 1)

NoProps ==
  [page_width |-> 0, page_height |-> 0,
   margin_left |-> 0, margin_top |-> 0, margin_right |-> 0, margin_bottom |-> 0,
   pattern_locale |-> "", header |-> FALSE, footer |-> FALSE,
   header_display |-> "never", header_size |-> 0,
   footer_display |-> "never", footer_size |-> 0, content_height |-> 0]

NoDocElements == [header |-> <<>>, content |-> <<>>, footer |-> <<>>]

\* before Report.__init__
InitBuild ==
  /\ definition \in Definitions
  /\ props = NoProps
  /\ doc = NoDocElements
  /\ InitState
  /\ pc = "new"

Constructed(d, r) ==
  IF r.raised
  THEN /\ errors' = r.errors
       /\ props' = props
       /\ doc' = doc
       /\ pc' = "construct_error"
  ELSE /\ errors' = r.errors \o ReportErrors(d, r.props)
       /\ props' = r.props
       /\ doc' = d.docElements
       /\ pc' = "constructed"

\* Report.__init__
Construct ==
  /\ pc = "new"
  /\ Constructed(definition, DocumentProperties(definition))
  /\ UNCHANGED <<band, el, page_count, ctx, pages, sized, pass, drain, xlsx, cleaned, definition,
                 first>>

\* index of the first element of ids whose prepare raises, 0 when none does
FirstInvalid(ids, invalid) ==
  IF \E k \in 1..Len(ids) : ids[k] \in invalid
  THEN CHOOSE k \in 1..Len(ids) : ids[k] \in invalid /\ \A j \in 1..(k - 1) : ids[j] \notin invalid
  ELSE 0

\* ReportBand.prepare(ctx, only_verify=True) when the prepare of the element at
\* position k raises: the elements before it are prepared and appended
PrepareRaised(b, bnd, els, k) ==
  [bnd |-> [bnd EXCEPT !.sorted_elements = SubSeq(doc[b], 1, k - 1)],
   els |-> PrepareElements(b, els, SubSeq(doc[b], 1, k - 1)),
   raised |-> TRUE]

PrepareReturned(r) == [bnd |-> r.bnd, els |-> r.els, raised |-> FALSE]

\* band.prepare(self.context, only_verify=True)
VerifyPrepare(b, bnd, els, k) ==
  IF k = 0 THEN PrepareReturned(prepare(b, FALSE, TRUE, bnd, els))
  ELSE PrepareRaised(b, bnd, els, k)

VerifyBand(b, els) == VerifyPrepare(b, band[b], els, FirstInvalid(doc[b], definition.invalid))

Skipped(b, els) == [bnd |-> band[b], els |-> els, raised |-> FALSE]

\* mutant: every band is prepared, whatever the display policy
VerifyNextAlways(b, guard, before) ==
  IF before.raised THEN [Skipped(b, before.els) EXCEPT !.raised = TRUE]
  ELSE VerifyBand(b, before.els)

\* a band of verify after the bands before it: not prepared when one of them raised
VerifyNext(b, guard, before) ==
  IF before.raised \/ ~guard THEN [Skipped(b, before.els) EXCEPT !.raised = before.raised]
  ELSE VerifyBand(b, before.els)

Verified(h, c, f) ==
  /\ band' = [header |-> h.bnd, content |-> c.bnd, footer |-> f.bnd]
  /\ el' = f.els
  /\ pc' = IF f.raised THEN "verify_error" ELSE "verified"

VerifiedContent(h, c) ==
  Verified(h, c, VerifyNext("footer", props.header_display # "never", c))

VerifiedHeader(h) == VerifiedContent(h, VerifyNext("content", TRUE, h))

\* Report.verify
Verify ==
  /\ pc = "constructed"
  /\ VerifiedHeader(VerifyNext("header", props.header_display # "never", Skipped("header", el)))
  /\ UNCHANGED <<props, doc, page_count, ctx, pages, sized, pass, drain, xlsx, cleaned,
                 definition, errors, first>>

NextBuild ==
  \/ Construct
  \/ Verify

SpecBuild == InitBuild /\ [][NextBuild]_vars

\* ------------------------------------------------------------- properties
content == band["content"]

\* generate_pdf has prepared the content band
PdfRunning == pc \in {"sizing", "emit", "error"} \/ (pc = "done" /\ Len(sized) > 0)

\* index of the first page-break sentinel of a queue, 0 when it holds none
FirstBreak(q) ==
  IF \E k \in 1..Len(q) : q[k].kind = "break"
  THEN CHOOSE k \in 1..Len(q) : q[k].kind = "break" /\ \A j \in 1..(k - 1) : q[j].kind # "break"
  ELSE 0

Breaks(q) == Cardinality({k \in 1..Len(q) : q[k].kind = "break"})

\* C1: with 100 units for the content, A (element 2: top 0, height 60) and B
\* (element 1: top 60, height 60, predecessor A), the first call places A at 0..60
\* and the first 40 units of B at 60, appends the sentinel, clears B's predecessor
\* and returns false; the second call places the last 20 units of B at 0, marks B
\* complete and returns true.
C1_Scenario ==
  /\ doc["content"] = <<1, 2>>
  /\ props.header_display = "never"
  /\ props.footer_display = "never"
  /\ PdfRunning

C1_FirstPage == <<Fragment(2, 0, 60, TRUE), Fragment(1, 60, 40, FALSE), Sentinel>>

C1_SplitScenario ==
  C1_Scenario =>
    /\ pass.calls <= 2
    /\ pass.calls = 0 => el[1].predecessor = 2
    /\ pass.calls >= 1 => pass.height = 100
    /\ pass.calls = 1 =>
         /\ content.render_elements = C1_FirstPage
         /\ ~pass.result
         /\ pass.els_before[1].predecessor = 2
         /\ el[1].predecessor = NoElem
         /\ el[2].rendering_complete
         /\ ~el[1].rendering_complete
         /\ content.sorted_elements = <<1>>
    /\ pass.calls = 2 =>
         /\ pass.before.render_elements = C1_FirstPage
         /\ pages = <<>> => content.render_elements = C1_FirstPage \o <<Fragment(1, 0, 20, TRUE)>>
         /\ pass.result
         /\ el[1].rendering_complete
         /\ content.sorted_elements = <<>>

C1_Witness == C1_Scenario /\ pass.calls = 2 /\ pass.result /\ pages = <<>>

\* the predecessor links never lead back to where they start
RECURSIVE Reaches(_, _, _)
Reaches(from, to, steps) ==
  /\ steps > 0
  /\ el[from].predecessor # NoElem
  /\ (el[from].predecessor = to \/ Reaches(el[from].predecessor, to, steps - 1))

PredecessorsAcyclic == \A id \in Ids : ~Reaches(id, id, Len(Pool))

MinHeight ==
  IF ContentHeight(props, 1) <= ContentHeight(props, 2)
  THEN ContentHeight(props, 1) ELSE ContentHeight(props, 2)

\* every page has height for the content, and an element that cannot be split is
\* not taller than it
RoomOnEveryPage ==
  /\ MinHeight > 0
  /\ \A k \in 1..Len(doc["content"]) :
       Elem(doc["content"][k]).kind = "doc" => Elem(doc["content"][k]).height <= MinHeight

CeilDiv(a, c) == (a + c - 1) \div c

RECURSIVE PagesOf(_)
PagesOf(s) ==
  IF s = <<>> THEN 0 ELSE CeilDiv(Elem(Head(s)).height, MinHeight) + PagesOf(Tail(s))

\* calls the content band needs at most: for each element one call per page it
\* fills and one more, each possibly after a call that places nothing
CallBudget == 2 * (Len(doc["content"]) + PagesOf(doc["content"])) + 1

\* the links of the content band as prepare sets them
C2_Links == prepare("content", TRUE, FALSE, NewBand, [id \in Ids |-> NewElemState]).els

\* no element of the content band has a predecessor that has nothing to render
C2_NoLinkToEmpty ==
  \A k \in 1..Len(doc["content"]) :
    \/ C2_Links[doc["content"][k]].predecessor = NoElem
    \/ Elem(C2_Links[doc["content"][k]].predecessor).kind \notin {"text", "table"}
    \/ Elem(C2_Links[doc["content"][k]].predecessor).height > 0

C3_Cap ==
  /\ Len(sized) <= MaxPages - 1
  /\ pc = "sizing" => (page_count = Len(sized) + 1 /\ page_count < MaxPages)
  /\ pc = "error" =>
       /\ Len(sized) = MaxPages - 1
       /\ \A k \in {1, Len(sized)} : ~sized[k].complete
       /\ pages = <<>>
       /\ ctx.page_number = 0
       /\ ctx.page_count = 0

C3_Witness == pc = "error"

\* C4: an element is placed in a pass (gets a fragment or is finished empty) only
\* when it has no predecessor or its predecessor is complete; when the element
\* looked at waits for its predecessor the pass ends with a new page, and neither
\* that element nor one behind it in the order is placed.
C4_Appended ==
  SubSeq(content.render_elements, Len(pass.before.render_elements) + 1,
         Len(content.render_elements))

C4_PredecessorGating ==
  (PdfRunning /\ pass.calls > 0) =>
    /\ \A k \in 1..Len(pass.placed) :
         \/ pass.els_before[pass.placed[k]].predecessor = NoElem
         \/ el[pass.els_before[pass.placed[k]].predecessor].rendering_complete
    /\ pages = <<>> =>
         \A k \in 1..Len(C4_Appended) :
           C4_Appended[k].kind = "frag" => C4_Appended[k].id \in Range(pass.placed)
    /\ pass.stopped_at # NoElem =>
         /\ ~pass.result
         /\ pass.els_before[pass.stopped_at].predecessor # NoElem
         /\ \/ ~el[pass.els_before[pass.stopped_at].predecessor].rendering_complete
            \/ pass.els_before[pass.stopped_at].predecessor
                 \notin Range(pass.before.sorted_elements)
         /\ \A j \in Index(pass.before.sorted_elements, pass.stopped_at)
                       ..Len(pass.before.sorted_elements) :
              /\ pass.before.sorted_elements[j] \notin Range(pass.placed)
              /\ pass.before.sorted_elements[j] \in Range(content.sorted_elements)
              /\ el[pass.before.sorted_elements[j]] = pass.els_before[pass.before.sorted_elements[j]]

C4_Witness ==
  /\ PdfRunning
  /\ pass.stopped_at # NoElem
  /\ Len(pass.placed) > 0
  /\ Index(pass.before.sorted_elements, pass.stopped_at) < Len(pass.before.sorted_elements)

\* C5: once prepared for a page target, sorted_elements is in the order of
\* (y, sort_order) and stays so; a predecessor is an element earlier in that order,
\* its bottom is <= the element's y and is the greatest such bottom.
C5_Before(b, a, e) ==
  \/ Elem(a).y < Elem(e).y
  \/ Elem(a).y = Elem(e).y /\ Elem(a).sort_order < Elem(e).sort_order
  \/ /\ Elem(a).y = Elem(e).y
     /\ Elem(a).sort_order = Elem(e).sort_order
     /\ Index(doc[b], a) < Index(doc[b], e)

C5_SortedWithPredecessors ==
  PdfRunning =>
    \A b \in Bands :
      /\ \A i \in 1..Len(band[b].sorted_elements), j \in 1..Len(band[b].sorted_elements) :
           i < j =>
             \/ Elem(band[b].sorted_elements[i]).y < Elem(band[b].sorted_elements[j]).y
             \/ /\ Elem(band[b].sorted_elements[i]).y = Elem(band[b].sorted_elements[j]).y
                /\ Elem(band[b].sorted_elements[i]).sort_order
                     <= Elem(band[b].sorted_elements[j]).sort_order
      /\ (b = "content" /\ pass.calls = 0) =>
           /\ Range(band[b].sorted_elements) = Range(doc[b])
           /\ Len(band[b].sorted_elements) = Len(doc[b])
      /\ \A e \in Range(band[b].sorted_elements) :
           el[e].predecessor # NoElem =>
             /\ el[e].predecessor \in Range(doc[b])
             /\ C5_Before(b, el[e].predecessor, e)
             /\ bottom(el[e].predecessor) <= Elem(e).y
             /\ \A a \in Range(doc[b]) :
                  (C5_Before(b, a, e) /\ bottom(a) <= Elem(e).y)
                    => bottom(a) <= bottom(el[e].predecessor)

C5_Witness ==
  /\ pc = "sizing"
  /\ pass.calls = 1
  /\ Len(content.sorted_elements) >= 2
  /\ \E e \in Range(content.sorted_elements) : el[e].predecessor # NoElem
  /\ doc["content"][1] # pass.before.sorted_elements[1]

\* C6 as stated: a header or footer call returns done=true whatever the height.
C6_FixedBandAlwaysDone ==
  \A k \in 1..Len(pages) : pages[k].header_done /\ pages[k].footer_done

\* every element of the band that is no page break got its last fragment
C6_AllPlaced(b, laid_out) ==
  \A e \in Range(doc[b]) :
    IsPageBreak(e) \/ \E k \in 1..Len(laid_out) : laid_out[k].id = e /\ laid_out[k].complete

C6_HasBreak(b) == \E e \in Range(doc[b]) : IsPageBreak(e)

C6_Fixed(b, shown, done, laid_out, drawn) ==
  shown =>
    /\ done <=> Breaks(laid_out) = 0
    /\ ~done =>
         /\ Breaks(laid_out) = 1
         /\ laid_out[Len(laid_out)] = Sentinel
         /\ ~C6_AllPlaced(b, laid_out)
         /\ band[b].sorted_elements # <<>>
    /\ ~C6_HasBreak(b) => (done <=> C6_AllPlaced(b, laid_out))
    /\ drawn = SelectSeq(laid_out, LAMBDA r : r.kind = "frag")

\* C6 as amended: the call of a header or footer returns done=true when all of its
\* elements are placed or a page-break marker is reached; with too little height it
\* returns false and appends a sentinel behind the fragments that fit.  The
\* renderer does not look at the result: it draws the fragments before the sentinel
\* on this page, and nothing stays pending in the band.
C6_FixedBandOnePage ==
  /\ \A k \in 1..Len(pages) :
       /\ C6_Fixed("header", pages[k].header, pages[k].header_done,
                   pages[k].header_laid_out, pages[k].header_drawn)
       /\ C6_Fixed("footer", pages[k].footer, pages[k].footer_done,
                   pages[k].footer_laid_out, pages[k].footer_drawn)
  /\ band["header"].render_elements = <<>>
  /\ band["footer"].render_elements = <<>>

C6_Witness ==
  \E k \in 1..Len(pages) :
    /\ pages[k].header /\ ~pages[k].header_done
    /\ pages[k].footer /\ ~pages[k].footer_done
    /\ Len(pages[k].header_drawn) = 2
    /\ k = 2

\* C7: render_pdf draws, in the order of the queue, the fragments before the first
\* sentinel and no sentinel; it leaves the part of the queue behind that sentinel,
\* in the same order, and nothing when the queue holds no sentinel.
C7_DrainPage ==
  drain.calls > 0 =>
    /\ \A k \in 1..Len(drain.drawn) : drain.drawn[k].kind = "frag"
    /\ content.render_elements = drain.after
    /\ IF FirstBreak(drain.before) = 0
       THEN drain.drawn = drain.before /\ drain.after = <<>>
       ELSE /\ drain.drawn = SubSeq(drain.before, 1, FirstBreak(drain.before) - 1)
            /\ drain.after = SubSeq(drain.before, FirstBreak(drain.before) + 1, Len(drain.before))

C7_Witness ==
  /\ drain.calls > 0
  /\ Len(drain.drawn) >= 2
  /\ Breaks(drain.after) >= 1
  /\ Len(drain.after) >= 3

\* the display policy as a table
C8_Present(policy, k) ==
  CASE policy = "always" -> TRUE
    [] policy = "never" -> FALSE
    [] policy = "not_on_first_page" -> k # 1

\* C8: header and footer are on page k exactly when the policy is always, or
\* not-on-first-page and k # 1; and the sizing loop takes the size of a band off
\* the height of page k exactly when the emission draws the band on page k.
C8_DisplayPolicy ==
  /\ \A k \in 1..Len(pages) :
       /\ pages[k].page_number = k
       /\ pages[k].header = C8_Present(props.header_display, k)
       /\ pages[k].footer = C8_Present(props.footer_display, k)
       /\ k <= Len(sized)
       /\ sized[k].header = pages[k].header
       /\ sized[k].footer = pages[k].footer
       /\ pages[k].content_offset_y =
            props.margin_top + (IF pages[k].header THEN props.header_size ELSE 0)
  /\ \A k \in 1..Len(sized) :
       /\ sized[k].page = k
       /\ sized[k].header = C8_Present(props.header_display, k)
       /\ sized[k].footer = C8_Present(props.footer_display, k)
       /\ sized[k].height = props.page_height - props.margin_top - props.margin_bottom
                              - (IF sized[k].header THEN props.header_size ELSE 0)
                              - (IF sized[k].footer THEN props.footer_size ELSE 0)

C8_Witness ==
  /\ Len(pages) = 3
  /\ props.header_display = "not_on_first_page"
  /\ props.footer_display = "always"

\* the cells of the elements of the same y as the i-th one
C9_Run(c, i) ==
  {j \in 1..Len(c.sorted_elements) :
     Elem(c.sorted_elements[j]).y = Elem(c.sorted_elements[i]).y}

C9_Span(id) == IF Elem(id).kind = "table" THEN Elem(id).cols ELSE 1

RECURSIVE C9_Sum(_, _)
C9_Sum(c, J) ==
  IF J = {} THEN 0
  ELSE LET j == CHOOSE x \in J : TRUE
       IN C9_Span(c.sorted_elements[j]) + C9_Sum(c, J \ {j})

C9_MaxNext(c, J) == CHOOSE m \in {c.cells[j].next : j \in J} : \A j \in J : c.cells[j].next <= m

C9_First(c, i) == CHOOSE m \in C9_Run(c, i) : \A j \in C9_Run(c, i) : m <= j

\* the row cursor when the run of the i-th element starts
C9_RunStart(c, i) ==
  IF C9_First(c, i) = 1 THEN c.start
  ELSE C9_MaxNext(c, C9_Run(c, C9_First(c, i) - 1))

\* C9: render_spreadsheet makes one run of the consecutive elements of equal y;
\* each element of a run starts at the row cursor of the start of the run, at the
\* column that is the sum of the spans of the elements before it in the run; the
\* cursor behind a run is the greatest next row its elements returned, and the
\* result is never less than the start row.
C9_Rows ==
  \A n \in 1..Len(xlsx.calls) :
    LET c == xlsx.calls[n]
    IN /\ Len(c.cells) = Len(c.sorted_elements)
       /\ c.result >= c.start
       /\ \A i \in 1..Len(c.cells) :
            /\ c.cells[i].id = c.sorted_elements[i]
            /\ \A j \in C9_Run(c, i), m \in 1..Len(c.cells) :
                 (j <= m /\ m <= i) => m \in C9_Run(c, i)
            /\ c.cells[i].row = C9_RunStart(c, i)
            /\ c.cells[i].col = C9_Sum(c, {j \in C9_Run(c, i) : j < i})
       /\ c.result = IF c.cells = <<>> THEN c.start
                     ELSE C9_MaxNext(c, C9_Run(c, Len(c.cells)))

C9_Witness ==
  \E n \in 1..Len(xlsx.calls) :
    /\ Len(xlsx.calls[n].cells) = 3
    /\ xlsx.calls[n].cells[2].col = 3
    /\ xlsx.calls[n].cells[3].row > xlsx.calls[n].cells[2].row
    /\ xlsx.calls[n].start > 0

\* C10: the emission starts as many physical pages as the sizing loop counted:
\* pages 1..page_count, no fewer and no more.
C10_PagesAsCounted ==
  (pc = "done" /\ Len(sized) > 0) =>
    /\ Len(pages) = ctx.page_count
    /\ \A k \in 1..Len(pages) : pages[k].page_number = k

\* generate_pdf has returned
PdfDone == pc = "done" /\ Len(sized) > 0

\* the content band left nothing to draw
C11_NoFragments == \A k \in 1..Len(pages) : pages[k].content_drawn = <<>>

\* C11: a generate_pdf that returns has started at least one physical page, also
\* when the content band has no elements or produced no fragment; the first page is
\* page 1 and shows the header and the footer exactly as their policies say for
\* page 1, and a band that is shown has been laid out and drawn on it.
C11_AtLeastOnePage ==
  /\ (pc = "emit" /\ ~MorePages) => Len(pages) >= 1
  /\ PdfDone =>
       /\ Len(pages) >= 1
       /\ pages[1].page_number = 1
       /\ pages[1].header = (props.header_display = "always")
       /\ pages[1].footer = (props.footer_display = "always")
       /\ (pages[1].header /\ doc["header"] # <<>>) => pages[1].header_drawn # <<>>
       /\ (pages[1].footer /\ doc["footer"] # <<>>) => pages[1].footer_drawn # <<>>

C11_Witness ==
  /\ PdfDone
  /\ doc["content"] \in {<<>>, <<7>>}
  /\ C11_NoFragments
  /\ Len(pages) = 1
  /\ pages[1].header /\ pages[1].header_drawn # <<>>
  /\ pages[1].footer /\ pages[1].footer_drawn # <<>>

\* a sentinel of the queue with a fragment before it and a fragment after it: the
\* queue holds fragments of two pages
C12_TwoPages(q) ==
  \E k \in 1..Len(q) :
    /\ q[k].kind = "break"
    /\ \E i \in 1..(k - 1) : q[i].kind # "break"
    /\ \E j \in (k + 1)..Len(q) : q[j].kind # "break"

\* C12 as stated: the queue of the content band never holds fragments of two pages.
C12_OnePagePending == PdfRunning => ~C12_TwoPages(content.render_elements)

\* C12 as amended: the sizing loop queues the fragments of every page before the
\* first page is drawn, one sentinel after each page but the last; every drain
\* takes one page off the queue and releases what it drew, so the queue holds the
\* pages not yet drawn.
C12_QueueByPage ==
  /\ pc \in {"sizing", "error"} => Breaks(content.render_elements) = Len(sized)
  /\ (pc = "emit" \/ PdfDone) =>
       /\ Breaks(content.render_elements) = Max(0, Len(sized) - 1 - Len(pages))
       /\ drain.calls = Len(pages)
       /\ drain.released = drain.drawn
       /\ drain.calls > 0 => Len(drain.after) < Len(drain.before) \/ drain.before = <<>>
  /\ PdfDone => content.render_elements = <<>>

C12_Witness ==
  /\ pc = "emit"
  /\ pages = <<>>
  /\ Breaks(content.render_elements) = 2
  /\ C12_TwoPages(content.render_elements)

\* the fragments of a queue, its sentinels left out
C13_Fragments(q) == SelectSeq(q, LAMBDA f : f.kind # "break")

\* C13: in a generate_pdf that returns, every fragment a band appended to its queue
\* is drawn and then released exactly once: on every page the header, the footer
\* and the content band release the fragments they drew, and the fragments drawn
\* are the fragments laid out.
C13_ReleasedOnce ==
  PdfDone =>
    \A k \in 1..Len(pages) :
      /\ pages[k].header_drawn = C13_Fragments(pages[k].header_laid_out)
      /\ pages[k].footer_drawn = C13_Fragments(pages[k].footer_laid_out)
      /\ pages[k].header_released = pages[k].header_drawn
      /\ pages[k].footer_released = pages[k].footer_drawn
      /\ pages[k].content_released = pages[k].content_drawn

\* the layout of a band that no page has touched: prepared from its initial state
\* and laid out once against size
C14_FreshPrepared(b, size, p) == create_render_elements(b, size, p.bnd, p.els)

C14_Fresh(b, size) ==
  C14_FreshPrepared(b, size, prepare(b, TRUE, FALSE, NewBand, [id \in Ids |-> NewElemState]))

C14_Page(b, size, shown, done, laid_out, drawn) ==
  IF shown
  THEN /\ laid_out = C14_Fresh(b, size).bnd.render_elements
       /\ done = C14_Fresh(b, size).result
       /\ drawn = C13_Fragments(laid_out)
       /\ Breaks(laid_out) <= 1
  ELSE laid_out = <<>> /\ drawn = <<>>

\* C14: the header and the footer carry nothing from page to page: on every page
\* that shows the band its fragments are those of a band prepared from scratch and
\* laid out once against its own size, all of them are drawn on that page, and no
\* fragment stays in the band's queue for another page.
C14_NoStateAcrossPages ==
  /\ band["header"].render_elements = <<>>
  /\ band["footer"].render_elements = <<>>
  /\ \A k \in 1..Len(pages) :
       /\ C14_Page("header", props.header_size, pages[k].header, pages[k].header_done,
                   pages[k].header_laid_out, pages[k].header_drawn)
       /\ C14_Page("footer", props.footer_size, pages[k].footer, pages[k].footer_done,
                   pages[k].footer_laid_out, pages[k].footer_drawn)

C14_Witness ==
  /\ Len(pages) = 3
  /\ doc["header"] = <<8, 9>>
  /\ \A k \in 1..3 : pages[k].header /\ ~pages[k].header_done /\ Len(pages[k].header_drawn) = 2
  /\ ~pages[1].footer /\ pages[2].footer /\ pages[3].footer_drawn = pages[2].footer_drawn
  /\ pages[2].footer_drawn # <<>>

\* Report.__init__ has returned or raised
C15_Built == pc \in {"constructed", "construct_error", "verified", "verify_error"}

C15_HasError(msg) == \E k \in 1..Len(errors) : errors[k].msg = msg

\* C15: a definition with an unsupported locale or with an invalid custom page
\* size does not make the construction raise: the construction goes on to its end
\* and report.errors holds a validation error for the fault.
C15_ValidationErrors ==
  C15_Built =>
    /\ pc # "construct_error"
    /\ PageSizeErrors(definition.geometry) # <<>> => C15_HasError("errorMsgInvalidPageSize")
    /\ InvalidLocale(definition.patternLocale) => errors # <<>>

\* verify has returned or raised
C16_VerifyEnded == pc \in {"verified", "verify_error"}

\* the bands verify prepares
C16_Verified ==
  IF props.header_display # "never" THEN {"header", "content", "footer"} ELSE {"content"}

\* an element of a band that verify prepares is invalid
C16_InvalidElement ==
  \E b \in C16_Verified : \E k \in 1..Len(doc[b]) : doc[b][k] \in definition.invalid

XlsxDone == pc = "done" /\ Len(sized) = 0

\* the bands rendered to the worksheet, in the order of their rendering
C17_Bands == [n \in 1..Len(xlsx.calls) |-> xlsx.calls[n].band]

\* C17: generate_xlsx renders the header band exactly when header_display is not
\* never, then the content band, then the footer band, each band from the row the
\* band before it returned; the header's display policy does not decide whether
\* the footer band is rendered: a footer whose own policy shows it is rendered.
C17_FooterIndependent ==
  XlsxDone =>
    /\ C17_Bands \in { <<"header", "content", "footer">>, <<"header", "content">>,
                        <<"content", "footer">>, <<"content">> }
    /\ (C17_Bands[1] = "header") = (props.header_display # "never")
    /\ props.footer_display # "never" => C17_Bands[Len(C17_Bands)] = "footer"
    /\ xlsx.calls[1].start = 0
    /\ \A n \in 2..Len(xlsx.calls) : xlsx.calls[n].start = xlsx.calls[n - 1].result
    /\ xlsx.row = xlsx.calls[Len(xlsx.calls)].result

\* a second generate_pdf is running or has returned
C18_SecondRun == first # NoRun

\* what the k-th page of a run drew of the content band
C18_Drawn(ps, k) == IF k <= Len(ps) THEN ps[k].content_drawn ELSE <<>>

\* C18: prepare for a page target resets the flow state of the band whatever
\* happened before: sorted_elements is rebuilt, render_elements is empty, page_y is
\* 0 and explicit_page_break is true; and the second generate_pdf of a report draws
\* every fragment of the content band on the same page at the same offset as the
\* first.
C18_ResetByPrepare ==
  /\ (C18_SecondRun /\ pc = "sizing" /\ sized = <<>>) =>
       /\ content.sorted_elements = sorted(TRUE, doc["content"])
       /\ content.render_elements = <<>>
       /\ content.page_y = 0
       /\ content.explicit_page_break
  /\ (C18_SecondRun /\ PdfDone) =>
       \A k \in 1..Max(Len(first), Len(pages)) : C18_Drawn(pages, k) = C18_Drawn(first, k)

\* the elements before position i that are no page breaks and end at or above the
\* top of the element at i
C19_Candidates(srt, i) ==
  {srt[j] : j \in {n \in 1..(i - 1) : ~IsPageBreak(srt[n]) /\ bottom(srt[n]) <= Elem(srt[i]).y}}

\* the candidates with the greatest bottom
C19_Best(srt, i) ==
  {c \in C19_Candidates(srt, i) : \A o \in C19_Candidates(srt, i) : bottom(o) <= bottom(c)}

\* C19: prepare leaves page breaks out of the search for the predecessor: the
\* predecessor of an element is the element with the greatest bottom <= its y among
\* the earlier elements that are no page breaks, so an element with a page break
\* and an ordinary element above it has the ordinary element as predecessor.
C19_BreaksSkipped ==
  (pc = "sizing" /\ sized = <<>>) =>
    \A i \in 1..Len(content.sorted_elements) :
      IF C19_Best(content.sorted_elements, i) = {}
      THEN el[content.sorted_elements[i]].predecessor = NoElem
      ELSE el[content.sorted_elements[i]].predecessor \in C19_Best(content.sorted_elements, i)

\* position of the first page break in the sorted elements of the band
C20_BreakAt(srt) == CHOOSE i \in 1..Len(srt) : IsPageBreak(srt[i]) /\ \A j \in 1..(i - 1) : ~IsPageBreak(srt[j])

\* the elements sorted before the first page break
C20_Before(srt) == SubSeq(srt, 1, C20_BreakAt(srt) - 1)

\* the pass got as far as the page break: every printed element before it got its
\* last fragment
C20_Reached(srt, laid_out) ==
  \A e \in Range(C20_Before(srt)) :
    ~is_printed(e) \/ \E n \in 1..Len(laid_out) : laid_out[n].id = e /\ laid_out[n].complete

C20_Band(b, srt, shown, done, laid_out, last) ==
  (shown /\ C6_HasBreak(b) /\ C20_Reached(srt, laid_out)) =>
    /\ done
    /\ Breaks(laid_out) = 0
    /\ \A n \in 1..Len(laid_out) : laid_out[n].id \in Range(C20_Before(srt))
    /\ last => band[b].sorted_elements = <<>>

\* C20: in a header or footer, a pass that reaches a page break returns done at
\* once: the band has no element left, the fragments appended before the page
\* break stay in the queue, no sentinel is appended and no element after the page
\* break gets a fragment.
C20_BreakEndsFixedBand ==
  \A k \in 1..Len(pages) :
    /\ C20_Band("header", sorted(TRUE, doc["header"]), pages[k].header, pages[k].header_done,
                pages[k].header_laid_out, k = Len(pages))
    /\ C20_Band("footer", sorted(TRUE, doc["footer"]), pages[k].footer, pages[k].footer_done,
                pages[k].footer_laid_out, k = Len(pages))

C20_Witness ==
  /\ Len(pages) = 2
  /\ doc["header"] = <<8, 10, 9>>
  /\ pages[2].header /\ pages[2].header_done
  /\ pages[2].header_laid_out = <<Fragment(8, 0, 10, TRUE)>>
  /\ pages[2].footer /\ pages[2].footer_laid_out = <<Fragment(11, 0, 10, TRUE)>>
  /\ band["header"].sorted_elements = <<>>

\* C21: the offset at which create_render_elements places an element is the
\* predecessor's render_bottom plus the gap (y - predecessor.bottom) when it has a
\* predecessor; without one it is y in the header and the footer, and in the
\* content band y - page_y when the element renders for the first time on a page
\* started by an explicit page break (the first page counts, with page_y = 0) and
\* 0 otherwise.  A pass that consumes a page break leaves page_y at the break's y
\* and the flag set, any other pass leaves the flag unset.
C21_ContentOffset(e) ==
  IF pass.els_before[e].predecessor # NoElem
  THEN el[pass.els_before[e].predecessor].render_bottom
         + (Elem(e).y - bottom(pass.els_before[e].predecessor))
  ELSE IF pass.els_before[e].first_render_element /\ pass.before.explicit_page_break
       THEN Elem(e).y - pass.before.page_y
       ELSE 0

C21_Consumed ==
  {m \in Range(pass.before.sorted_elements) :
     IsPageBreak(m) /\ m \notin Range(content.sorted_elements)}

\* the bottom of the fragment of element e among the fragments laid out
C21_RenderBottom(laid_out, e) ==
  LET k == CHOOSE j \in 1..Len(laid_out) : laid_out[j].id = e
  IN laid_out[k].top + laid_out[k].height

C21_FixedOffset(b, laid_out, e) ==
  LET pred == prepare(b, TRUE, FALSE, band[b], el).els[e].predecessor
  IN IF pred # NoElem
     THEN C21_RenderBottom(laid_out, pred) + (Elem(e).y - bottom(pred))
     ELSE Elem(e).y

C21_FixedBand(b, laid_out) ==
  \A k \in 1..Len(laid_out) :
    laid_out[k].kind = "frag" => laid_out[k].top = C21_FixedOffset(b, laid_out, laid_out[k].id)

C21_OffsetRule ==
  /\ (PdfRunning /\ pass.calls > 0) =>
       /\ pass.calls = 1 => pass.before.explicit_page_break /\ pass.before.page_y = 0
       /\ content.explicit_page_break <=> C21_Consumed # {}
       /\ \A m \in C21_Consumed : content.page_y = Elem(m).y
       /\ C21_Consumed = {} => content.page_y = pass.before.page_y
       /\ pages = <<>> =>
            /\ \A k \in 1..Len(C4_Appended) :
                 C4_Appended[k].kind = "frag" =>
                   C4_Appended[k].top = C21_ContentOffset(C4_Appended[k].id)
            /\ \A k \in 1..Len(pass.placed) :
                 ~is_printed(pass.placed[k]) =>
                   el[pass.placed[k]].render_bottom = C21_ContentOffset(pass.placed[k])
  /\ \A k \in 1..Len(pages) :
       /\ C21_FixedBand("header", pages[k].header_laid_out)
       /\ C21_FixedBand("footer", pages[k].footer_laid_out)

\* element 1 (y 60) is first placed on a page started by the break at y 60, at
\* offset 0, after a first page where the doc element at y 30 was placed at 30
C21_Witness ==
  /\ pc = "emit" /\ pages = <<>>
  /\ doc["content"] = <<1, 4, 5>>
  /\ pass.calls = 2
  /\ pass.before.explicit_page_break /\ pass.before.page_y = 60
  /\ pass.els_before[1].first_render_element
  /\ content.render_elements[1] = Fragment(4, 30, 50, TRUE)
  /\ \E k \in 1..Len(C4_Appended) : C4_Appended[k].id = 1 /\ C4_Appended[k].top = 0
  /\ ~content.explicit_page_break

\* C22: in the content band a pass never places an element that comes after a
\* page break in sorted_elements: such an element stays queued and unrendered, so
\* it has no fragment on the page where the break is consumed nor on an earlier
\* one.  A pass consumes at most one break, and a break that heads the queue is
\* removed by the pass without anything being placed.
C22_After(m) ==
  {pass.before.sorted_elements[j] :
     j \in (Index(pass.before.sorted_elements, m) + 1)..Len(pass.before.sorted_elements)}

C22_BreakOrdering ==
  (PdfRunning /\ pass.calls > 0) =>
    /\ Cardinality(C21_Consumed) <= 1
    /\ \A m \in Range(pass.before.sorted_elements) :
         IsPageBreak(m) =>
           \A e \in C22_After(m) :
             /\ e \notin Range(pass.placed)
             /\ e \in Range(content.sorted_elements)
             /\ [el[e] EXCEPT !.predecessor = pass.els_before[e].predecessor] = pass.els_before[e]
             /\ pages = <<>> =>
                  \A k \in 1..Len(content.render_elements) : content.render_elements[k].id # e
    /\ (Len(pass.before.sorted_elements) > 0 /\ IsPageBreak(pass.before.sorted_elements[1])) =>
         /\ C21_Consumed = {pass.before.sorted_elements[1]}
         /\ pass.placed = <<>>
         /\ content.sorted_elements = RemoveAt(pass.before.sorted_elements, 1)
         /\ pages = <<>> => C4_Appended \in {<<>>, <<Sentinel>>}

\* the first pass places element 4, consumes the break at y 60 and leaves element 1,
\* which follows the break, queued without a fragment
C22_Witness ==
  /\ pc = "sizing"
  /\ doc["content"] = <<1, 4, 5>>
  /\ pass.calls = 1
  /\ pass.placed = <<4>>
  /\ C21_Consumed = {5}
  /\ content.sorted_elements = <<1>>
  /\ content.render_elements = <<Fragment(4, 30, 50, TRUE), Sentinel>>

\* C23: an element whose print condition is false and whose predecessor is absent
\* or complete is finished empty at its offset in the pass that comes to it: it is
\* complete, leaves sorted_elements and gets no fragment, whatever its offset (also
\* one at or beyond the height of the page), and the pass goes on with the next
\* element, which is not held back when the hidden element is its predecessor.
C23_Next(h) ==
  IF Index(pass.before.sorted_elements, h) < Len(pass.before.sorted_elements)
  THEN pass.before.sorted_elements[Index(pass.before.sorted_elements, h) + 1]
  ELSE NoElem

\* the pass came to element n and did with it what it does with an element
C23_Considered(n) ==
  \/ n \in Range(pass.placed)
  \/ n \in C21_Consumed
  \/ pass.stopped_at = n /\ pass.els_before[n].predecessor \notin Range(pass.placed)
  \/ /\ n \in Range(content.sorted_elements)
     /\ ~IsPageBreak(n)
     /\ pass.stopped_at # n
     /\ \/ C21_ContentOffset(n) >= pass.height
        \/ Elem(n).kind = "doc" /\ C21_ContentOffset(n) + Elem(n).height > pass.height

C23_HiddenFinished ==
  (PdfRunning /\ pass.calls > 0) =>
    /\ \A k \in 1..Len(pass.placed) :
         ~is_printed(pass.placed[k]) =>
           /\ el[pass.placed[k]].rendering_complete
           /\ el[pass.placed[k]].render_bottom = C21_ContentOffset(pass.placed[k])
           /\ pass.placed[k] \notin Range(content.sorted_elements)
           /\ C23_Next(pass.placed[k]) # NoElem => C23_Considered(C23_Next(pass.placed[k]))
           /\ C23_Next(pass.placed[k]) = NoElem =>
                /\ pass.stopped_at = NoElem
                /\ pass.result = (content.sorted_elements = <<>>)
    /\ \A j \in 1..Len(pass.before.sorted_elements) :
         (/\ ~is_printed(pass.before.sorted_elements[j])
          /\ ~IsPageBreak(pass.before.sorted_elements[j])
          /\ \/ j = 1
             \/ /\ pass.before.sorted_elements[j - 1] \in Range(pass.placed)
                /\ el[pass.before.sorted_elements[j - 1]].rendering_complete
          /\ \/ pass.els_before[pass.before.sorted_elements[j]].predecessor = NoElem
             \/ pass.els_before[pass.before.sorted_elements[j]].predecessor \in Range(pass.placed))
           => pass.before.sorted_elements[j] \in Range(pass.placed)
    /\ pages = <<>> =>
         \A k \in 1..Len(content.render_elements) :
           content.render_elements[k].kind = "frag" => is_printed(content.render_elements[k].id)

\* the second pass finishes the text (element 1), then the hidden element 7 at the
\* text's bottom 20, then places element 14, whose predecessor is element 7, at 20
C23_Witness ==
  /\ pc = "emit" /\ pages = <<>>
  /\ doc["content"] = <<1, 7, 14>>
  /\ pass.calls = 2
  /\ pass.height = 100
  /\ pass.placed = <<1, 7, 14>>
  /\ pass.els_before[14].predecessor = 7
  /\ el[7].rendering_complete /\ el[7].render_bottom = 20
  /\ C4_Appended = <<Fragment(1, 0, 20, TRUE), Fragment(14, 20, 10, TRUE)>>

\* C24: when a pass ends with elements pending, the links to every element that
\* finished in the pass are cleared, however it finished (with a fragment, without
\* one, or hidden): no pending element is linked to a predecessor that is complete.
C24_LinksCleared ==
  (PdfRunning /\ pass.calls > 0 /\ ~pass.result) =>
    \A k \in 1..Len(content.sorted_elements) :
      \/ el[content.sorted_elements[k]].predecessor = NoElem
      \/ ~el[el[content.sorted_elements[k]].predecessor].rendering_complete

\* C25: the predecessor links form a forest: a linked predecessor is another
\* element of the same band that stands earlier in sorted_elements while it is
\* queued, so no chain of links returns to its start; and a pass changes a link
\* only by clearing it: the dependent keeps the rest of its state and the
\* predecessor stays complete.
C25_Linked(b) ==
  \A k \in 1..Len(band[b].sorted_elements) :
    el[band[b].sorted_elements[k]].predecessor # NoElem =>
      /\ el[band[b].sorted_elements[k]].predecessor \in Range(doc[b])
      /\ el[band[b].sorted_elements[k]].predecessor # band[b].sorted_elements[k]
      /\ \A j \in 1..Len(band[b].sorted_elements) :
           band[b].sorted_elements[j] = el[band[b].sorted_elements[k]].predecessor => j < k

C25_Cleared(id) ==
  /\ el[id].predecessor \in {pass.els_before[id].predecessor, NoElem}
  /\ id \notin Range(pass.placed) =>
       [el[id] EXCEPT !.predecessor = pass.els_before[id].predecessor] = pass.els_before[id]
  /\ el[id].predecessor # pass.els_before[id].predecessor =>
       /\ ~pass.result
       /\ pass.els_before[id].predecessor \in Range(pass.placed)
       /\ el[pass.els_before[id].predecessor].rendering_complete
       /\ el[pass.els_before[id].predecessor].predecessor
            \in {pass.els_before[pass.els_before[id].predecessor].predecessor, NoElem}

C25_Forest ==
  /\ PredecessorsAcyclic
  /\ \A b \in Bands : pc \notin {"xlsx_header", "xlsx_content", "xlsx_footer"} => C25_Linked(b)
  /\ (PdfRunning /\ pass.calls > 0) => \A id \in Range(doc["content"]) : C25_Cleared(id)

\* a chain of two links (7 after 1 after 2): the first pass completes element 2 and
\* clears the link of element 1, which keeps the 20 units it has left; the link of
\* element 7 to the unfinished element 1 stays
C25_Witness ==
  /\ pc = "sizing"
  /\ doc["content"] = <<1, 2, 7>>
  /\ pass.calls = 1
  /\ pass.els_before[7].predecessor = 1 /\ pass.els_before[1].predecessor = 2
  /\ el[1].predecessor = NoElem /\ el[1].remaining = 20
  /\ el[2].rendering_complete
  /\ el[7].predecessor = 1
  /\ content.sorted_elements = <<1, 7>>

\* C26: a create_render_elements call of the content band that returns false
\* appends one sentinel, as the last entry of the queue, and a call that returns
\* true appends none; when the sizing loop has ended the queue holds page_count - 1
\* sentinels.
C26_Sentinels ==
  (PdfRunning /\ pass.calls > 0 /\ pages = <<>>) =>
    /\ Breaks(C4_Appended) = (IF pass.result THEN 0 ELSE 1)
    /\ ~pass.result =>
         /\ Len(content.render_elements) > 0
         /\ content.render_elements[Len(content.render_elements)] = Sentinel
         /\ Len(content.sorted_elements) > 0
    /\ pass.result => content.sorted_elements = <<>>
    /\ pc \in {"emit", "error"} =>
         Breaks(content.render_elements) = page_count - 1
    /\ pc = "emit" => ctx.page_count = page_count

\* three sizing calls: two sentinels in the queue, the last entry a fragment
C26_Witness ==
  /\ pc = "emit" /\ pages = <<>>
  /\ page_count = 3
  /\ pass.result
  /\ Breaks(content.render_elements) = 2
  /\ content.render_elements[Len(content.render_elements)].kind = "frag"

\* C27: every create_render_elements call of the content band and the
\* set_page_count call come before the first page is started; each page started
\* counts the page number up by one, and the header, the footer and the content of
\* the page are drawn with the number counted; once a page is started the content
\* band is not paginated again.
C27_Sizing ==
  (pass' # pass \/ sized' # sized \/ ctx'.page_count # ctx.page_count) =>
    /\ pages = <<>> /\ pages' = <<>>
    /\ ctx.page_number = 0 /\ ctx'.page_number = 0
    /\ pass'.calls = pass.calls + 1
    /\ ctx'.page_count # ctx.page_count => (pass'.result /\ ctx'.page_count = pass'.calls)

C27_Emission ==
  (pages' # pages \/ ctx'.page_number # ctx.page_number) =>
    /\ Len(pages') = Len(pages) + 1
    /\ SubSeq(pages', 1, Len(pages)) = pages
    /\ ctx'.page_number = ctx.page_number + 1
    /\ pages'[Len(pages')].page_number = ctx'.page_number
    /\ pages'[Len(pages')].header = HeaderEmitted(props, ctx'.page_number)
    /\ pages'[Len(pages')].footer = FooterEmitted(props, ctx'.page_number)
    /\ pages'[Len(pages')].content_offset_y = ContentOffsetY(props, ctx'.page_number)
    /\ pass' = pass /\ sized' = sized
    /\ pass.result
    /\ ctx'.page_count = ctx.page_count /\ ctx.page_count = pass.calls
    /\ band'["content"].sorted_elements = band["content"].sorted_elements
    /\ \A id \in Range(doc["content"]) : el'[id] = el[id]

C27_PhaseOrder == [][C27_Sizing /\ C27_Emission]_vars

\* three pagination calls, then three pages counted 1, 2, 3
C27_Witness ==
  /\ PdfDone
  /\ pass.calls = 3
  /\ ctx.page_count = 3
  /\ Len(pages) = 3
  /\ ctx.page_number = 3
  /\ \A k \in 1..3 : pages[k].page_number = k
  /\ pages[1].header # pages[2].header

\* C28: on every page k the offset at which the content is drawn (margin_top, and
\* header_size more when the page has a header) plus the height the k-th sizing
\* call was given is page_height - margin_bottom, less footer_size when the page
\* has a footer: the content region starts below the header and ends where the
\* footer is drawn.
C28_Region(k) ==
  /\ k <= Len(sized)
  /\ sized[k].page = pages[k].page_number
  /\ pages[k].content_offset_y
       = props.margin_top + (IF pages[k].header THEN props.header_size ELSE 0)
  /\ pages[k].content_offset_y + sized[k].height
       = props.page_height - props.margin_bottom
           - (IF pages[k].footer THEN props.footer_size ELSE 0)
  /\ pages[k].footer => pages[k].content_offset_y + sized[k].height = footer_offset_y(props)

C28_RegionConsistency == \A k \in 1..Len(pages) : C28_Region(k)

\* header from the second page on, footer on every page: the content of page 1
\* starts at 10 with 80 units, the content of page 2 at 30 with 60 units
C28_Witness ==
  /\ props.header_display = "not_on_first_page"
  /\ props.footer_display = "always"
  /\ Len(pages) >= 2
  /\ pages[1].content_offset_y = 10 /\ sized[1].height = 80
  /\ pages[2].content_offset_y = 30 /\ sized[2].height = 60
  /\ pages[2].content_drawn # <<>>

====
